---- MODULE Spec2Model ----
(***************************************************************************)
(* A model of soundreaper/graph-challenges: the Vertex and Graph classes   *)
(* of graph.py and the grid solver timeToRot of challenges.py.             *)
(*                                                                         *)
(* A Python dict is an insertion-ordered association list: a sequence of   *)
(* records [k |-> key, v |-> value].  Vertex objects live in a heap (a     *)
(* sequence); a reference is an index into the heap, 0 is None.  A Graph   *)
(* value is the record                                                     *)
(*   [heap |-> Seq(Vertex), directed |-> BOOLEAN, vdict |-> dict id -> ref]*)
(* and a Vertex is [id |-> id, nbrs |-> dict id -> ref].                   *)
(***************************************************************************)
EXTENDS Integers, Sequences, FiniteSets, TLC

\* ------------------------------------------------------------------ bounds
\* Vertex ids of the main specification are 1..NumIds.
NumIds == 3
\* Mutating calls (add_vertex, add_edge) in one behaviour of Spec.
MaxOps == 3
\* Calls of add_vertex on an id that is already in the graph.
MaxReadd == 1
\* Largest target_distance handed to find_vertices_n_away.
MaxDist == 3
\* Vertex ids and add_edge calls of the path specification.
PathIds == 5
PathEdges == 5
\* Largest grid handed to timeToRot.
MaxRows == 2
MaxCols == 3

Ids == 1..NumIds

\* ------------------------------------------------------------ Python dict
None == 0

DictKeys(d) == [i \in 1..Len(d) |-> d[i].k]

DictValues(d) == [i \in 1..Len(d) |-> d[i].v]

DictKeySet(d) == {d[i].k : i \in 1..Len(d)}

DictHas(d, key) == \E i \in 1..Len(d) : d[i].k = key

DictGet(d, key) == d[CHOOSE i \in 1..Len(d) : d[i].k = key].v

\* d[key] = val: an existing key keeps its place, a new key goes last.
DictSet(d, key, val) ==
    IF DictHas(d, key)
    THEN [i \in 1..Len(d) |-> IF d[i].k = key THEN [k |-> key, v |-> val] ELSE d[i]]
    ELSE Append(d, [k |-> key, v |-> val])

\* ----------------------------------------------------------------- Vertex
NewVertex(vertex_id) == [id |-> vertex_id, nbrs |-> <<>>]

\* Vertex.add_neighbor on the object at heap[ref], the neighbour being the
\* object at heap[nref]; returns the heap.
add_neighbor(heap, ref, nref) ==
    [heap EXCEPT ![ref].nbrs = DictSet(heap[ref].nbrs, heap[nref].id, nref)]

\* Vertex.get_neighbors: the neighbour objects (references), in dict order.
get_neighbors(g, ref) == DictValues(g.heap[ref].nbrs)

get_id(g, ref) == g.heap[ref].id

\* ------------------------------------------------------------------ Graph
NewGraph(is_directed) == [heap |-> <<>>, directed |-> is_directed, vdict |-> <<>>]

contains_id(g, vertex_id) == DictHas(g.vdict, vertex_id)

get_vertex(g, vertex_id) ==
    IF ~DictHas(g.vdict, vertex_id) THEN None ELSE DictGet(g.vdict, vertex_id)

\* A fresh Vertex object is allocated and stored under vertex_id, whether or
\* not the id is already a key.
add_vertex(g, vertex_id) ==
    [g EXCEPT !.heap = Append(g.heap, NewVertex(vertex_id)),
              !.vdict = DictSet(g.vdict, vertex_id, Len(g.heap) + 1)]

\* The slip "if self.__is_directed": the link back made for directed graphs.
add_edge_link_back_when_directed(g, r1, r2) ==
    IF g.directed THEN [g EXCEPT !.heap = add_neighbor(g.heap, r2, r1)] ELSE g

\* if not self.__is_directed: vertex2.add_neighbor(vertex1)
add_edge_link_back(g, r1, r2) ==
    IF ~g.directed THEN [g EXCEPT !.heap = add_neighbor(g.heap, r2, r1)] ELSE g

add_edge(g, vertex_id1, vertex_id2) ==
    LET g1 == IF get_vertex(g, vertex_id1) = None THEN add_vertex(g, vertex_id1) ELSE g
        g2 == IF get_vertex(g1, vertex_id2) = None THEN add_vertex(g1, vertex_id2) ELSE g1
        r1 == DictGet(g2.vdict, vertex_id1)
        r2 == DictGet(g2.vdict, vertex_id2)
        g3 == [g2 EXCEPT !.heap = add_neighbor(g2.heap, r1, r2)]
    IN  add_edge_link_back(g3, r1, r2)

get_vertices(g) == DictValues(g.vdict)

\* list(self.__vertex_dict.keys()), as a set: the ids in the graph.
VertexIds(g) == DictKeySet(g.vdict)

\* ------------------------------------------------------- call outcomes
\* A call either returns a value or raises the named Python exception.
Return(v) == [val |-> v, status |-> "ok"]

Raise(e) == [val |-> <<>>, status |-> e]

Last(s) == s[Len(s)]

Front(s) == SubSeq(s, 1, Len(s) - 1)

\* ----------------------------------------------------------- bfs_traversal
RECURSIVE bfs_traversal_for(_, _, _, _, _)
bfs_traversal_for(g, nbrs, i, seen, queue) ==
    IF i > Len(nbrs) THEN [seen |-> seen, queue |-> queue]
    ELSE LET nid == get_id(g, nbrs[i])
         IN  IF nid \notin seen
             THEN bfs_traversal_for(g, nbrs, i + 1, seen \cup {nid}, Append(queue, nbrs[i]))
             ELSE bfs_traversal_for(g, nbrs, i + 1, seen, queue)

RECURSIVE bfs_traversal_while(_, _, _, _)
bfs_traversal_while(g, seen, queue, processed) ==
    IF queue = <<>> THEN processed
    ELSE LET cur == Head(queue)
             st == bfs_traversal_for(g, get_neighbors(g, cur), 1, seen, Tail(queue))
         IN  bfs_traversal_while(g, st.seen, st.queue, Append(processed, get_id(g, cur)))

\* The value is the sequence of ids the method prints as processed.
bfs_traversal(g, start_id) ==
    IF ~contains_id(g, start_id) THEN Raise("KeyError")
    ELSE Return(bfs_traversal_while(g, {start_id}, <<get_vertex(g, start_id)>>, <<>>))

\* ------------------------------------------------------ find_shortest_path
RECURSIVE find_shortest_path_for(_, _, _, _, _, _)
find_shortest_path_for(g, cur_id, nbrs, i, paths, queue) ==
    IF i > Len(nbrs) THEN [queue |-> queue, paths |-> paths]
    ELSE LET nid == get_id(g, nbrs[i])
         IN  IF nid \notin DOMAIN paths
             THEN find_shortest_path_for(g, cur_id, nbrs, i + 1,
                      (nid :> Append(paths[cur_id], nid)) @@ paths,
                      Append(queue, nbrs[i]))
             ELSE find_shortest_path_for(g, cur_id, nbrs, i + 1, paths, queue)

\* queue.pop() takes the entry appended last.
QueuePopShortestPath(queue) == [item |-> Last(queue), rest |-> Front(queue)]

RECURSIVE find_shortest_path_while(_, _, _, _)
find_shortest_path_while(g, target_id, paths, queue) ==
    IF queue = <<>> THEN paths
    ELSE LET p == QueuePopShortestPath(queue)
             cur == p.item
         IN  IF get_id(g, cur) = target_id THEN paths
             ELSE LET st == find_shortest_path_for(g, get_id(g, cur),
                                 get_neighbors(g, cur), 1, paths, p.rest)
                  IN  find_shortest_path_while(g, target_id, st.paths, st.queue)

\* None is returned as <<>> (a path is never empty).
find_shortest_path(g, start_id, target_id) ==
    IF ~contains_id(g, start_id) \/ ~contains_id(g, target_id) THEN Raise("KeyError")
    ELSE LET paths == find_shortest_path_while(g, target_id,
                          (start_id :> <<start_id>>), <<get_vertex(g, start_id)>>)
         IN  IF target_id \notin DOMAIN paths THEN Return(<<>>)
             ELSE Return(paths[target_id])

\* ---------------------------------------------------- find_vertices_n_away
RECURSIVE find_vertices_n_away_for(_, _, _, _, _, _)
find_vertices_n_away_for(g, nbrs, i, dist, visited, queue) ==
    IF i > Len(nbrs) THEN [queue |-> queue, visited |-> visited]
    ELSE LET nid == get_id(g, nbrs[i])
         IN  IF nid \notin visited
             THEN find_vertices_n_away_for(g, nbrs, i + 1, dist, visited \cup {nid},
                      Append(queue, <<nid, dist + 1>>))
             ELSE find_vertices_n_away_for(g, nbrs, i + 1, dist, visited, queue)

\* queue.pop() takes the entry appended last.
QueuePopNAway(queue) == [item |-> Last(queue), rest |-> Front(queue)]

RECURSIVE find_vertices_n_away_while(_, _, _, _, _)
find_vertices_n_away_while(g, target_distance, visited, queue, target_vertices) ==
    IF queue = <<>> THEN Return(target_vertices)
    ELSE LET p == QueuePopNAway(queue)
             cur_id == p.item[1]
             dist == p.item[2]
             found == IF dist = target_distance
                      THEN Append(target_vertices, cur_id) ELSE target_vertices
         IN  IF get_vertex(g, cur_id) = None THEN Raise("AttributeError")
             ELSE LET st == find_vertices_n_away_for(g,
                                 get_neighbors(g, get_vertex(g, cur_id)), 1, dist,
                                 visited, p.rest)
                  IN  find_vertices_n_away_while(g, target_distance, st.visited,
                          st.queue, found)

find_vertices_n_away(g, start_id, target_distance) ==
    find_vertices_n_away_while(g, target_distance, {start_id}, <<<<start_id, 0>>>>, <<>>)

\* ------------------------------------------------------------ is_bipartite
RECURSIVE is_bipartite_for(_, _, _, _, _, _, _)
is_bipartite_for(g, cur_id, nbrs, i, color, visited, queue) ==
    IF i > Len(nbrs) THEN [queue |-> queue, visited |-> visited, conflict |-> FALSE]
    ELSE LET nid == get_id(g, nbrs[i])
         IN  IF nid \notin DOMAIN visited
             THEN is_bipartite_for(g, cur_id, nbrs, i + 1, color,
                      (nid :> color) @@ visited, Append(queue, nid))
             ELSE IF visited[cur_id] = visited[nid]
                  THEN [queue |-> queue, visited |-> visited, conflict |-> TRUE]
                  ELSE is_bipartite_for(g, cur_id, nbrs, i + 1, color, visited, queue)

\* current_color ^= 1, once per vertex taken from the queue.
NextColor(current_color) == 1 - current_color

RECURSIVE is_bipartite_while(_, _, _, _)
is_bipartite_while(g, current_color, visited, queue) ==
    IF queue = <<>> THEN TRUE
    ELSE LET color == NextColor(current_color)
             cur_id == Head(queue)
             st == is_bipartite_for(g, cur_id, get_neighbors(g, get_vertex(g, cur_id)),
                       1, color, visited, Tail(queue))
         IN  IF st.conflict THEN FALSE
             ELSE is_bipartite_while(g, color, st.visited, st.queue)

\* The run of is_bipartite once choice() has drawn current_vertex_id.
is_bipartite_from(g, current_vertex_id) ==
    Return(is_bipartite_while(g, 0, (current_vertex_id :> 0), <<current_vertex_id>>))

\* choice(keys) raises IndexError on an empty list; otherwise every key can
\* be drawn: the set of possible outcomes, each with the key drawn.
is_bipartite(g) ==
    IF g.vdict = <<>> THEN {[start |-> None, out |-> Raise("IndexError")]}
    ELSE {[start |-> s, out |-> is_bipartite_from(g, s)] : s \in VertexIds(g)}

\* ----------------------------------------------- find_connected_components
InSeq(x, s) == \E i \in 1..Len(s) : s[i] = x

RECURSIVE find_connected_components_for(_, _, _, _, _, _)
find_connected_components_for(g, nbrs, i, vertices, queue, component) ==
    IF i > Len(nbrs)
    THEN [queue |-> queue, vertices |-> vertices, component |-> component]
    ELSE LET nid == get_id(g, nbrs[i])
             fresh == ~InSeq(nid, component)
         IN  find_connected_components_for(g, nbrs, i + 1, vertices \ {nid},
                 IF fresh THEN Append(queue, nid) ELSE queue,
                 IF fresh THEN Append(component, nid) ELSE component)

RECURSIVE find_connected_components_inner(_, _, _, _)
find_connected_components_inner(g, vertices, queue, component) ==
    IF queue = <<>> THEN [vertices |-> vertices, component |-> component]
    ELSE LET current_id == Last(queue)
             st == find_connected_components_for(g,
                       get_neighbors(g, get_vertex(g, current_id)), 1, vertices,
                       Front(queue), component)
         IN  find_connected_components_inner(g, st.vertices, st.queue, st.component)

\* vertices.pop() removes an arbitrary element of the set: every choice is
\* modelled.  The set of lists of components the call can return.
RECURSIVE find_connected_components_while(_, _, _)
find_connected_components_while(g, vertices, components) ==
    IF vertices = {} THEN {components}
    ELSE UNION { LET st == find_connected_components_inner(g, vertices \ {start_id},
                               <<start_id>>, <<start_id>>)
                 IN  find_connected_components_while(g, st.vertices,
                         Append(components, st.component))
                 : start_id \in vertices }

find_connected_components(g) ==
    find_connected_components_while(g, VertexIds(g), <<>>)

\* ------------------------------------------------------ find_path_dfs_iter
RECURSIVE find_path_dfs_iter_for(_, _, _, _, _, _)
find_path_dfs_iter_for(g, cur_id, nbrs, i, paths, stack) ==
    IF i > Len(nbrs) THEN [paths |-> paths, stack |-> stack]
    ELSE LET nid == get_id(g, nbrs[i])
         IN  IF nid \notin DOMAIN paths
             THEN find_path_dfs_iter_for(g, cur_id, nbrs, i + 1,
                      (nid :> Append(paths[cur_id], nid)) @@ paths,
                      Append(stack, nbrs[i]))
             ELSE find_path_dfs_iter_for(g, cur_id, nbrs, i + 1, paths, stack)

RECURSIVE find_path_dfs_iter_while(_, _, _, _)
find_path_dfs_iter_while(g, target_id, paths, stack) ==
    IF stack = <<>> THEN paths
    ELSE LET cur == Last(stack)
         IN  IF get_id(g, cur) = target_id THEN paths
             ELSE LET st == find_path_dfs_iter_for(g, get_id(g, cur),
                                 get_neighbors(g, cur), 1, paths, Front(stack))
                  IN  find_path_dfs_iter_while(g, target_id, st.paths, st.stack)

find_path_dfs_iter(g, start_id, target_id) ==
    IF ~contains_id(g, start_id) \/ ~contains_id(g, target_id) THEN Raise("KeyError")
    ELSE LET paths == find_path_dfs_iter_while(g, target_id,
                          (start_id :> <<start_id>>), <<get_vertex(g, start_id)>>)
         IN  IF target_id \notin DOMAIN paths THEN Return(<<>>)
             ELSE Return(paths[target_id])

\* ---------------------------------------------------------- contains_cycle
\* dfs_cycle threads the two lists it mutates; ret is what the call returns:
\* "True"/"False" (recursion_stack[-1]), "None" (the bare return) or
\* "IndexError" (recursion_stack[-1] on an empty list).
RECURSIVE dfs_cycle(_, _, _, _)
RECURSIVE dfs_cycle_for(_, _, _, _, _)
dfs_cycle_for(g, nbrs, i, visited, recursion_stack) ==
    IF i > Len(nbrs)
    THEN [visited |-> visited, recursion_stack |-> recursion_stack,
          ret |-> IF recursion_stack = <<>> THEN "IndexError"
                  ELSE IF Last(recursion_stack) THEN "True" ELSE "False"]
    ELSE IF InSeq(get_id(g, nbrs[i]), visited)
         THEN [visited |-> visited, recursion_stack |-> Append(recursion_stack, TRUE),
               ret |-> "None"]
         ELSE LET r == dfs_cycle(g, nbrs[i], visited, Append(recursion_stack, FALSE))
              IN  dfs_cycle_for(g, nbrs, i + 1, r.visited, r.recursion_stack)

dfs_cycle(g, vertex, visited, recursion_stack) ==
    dfs_cycle_for(g, get_neighbors(g, vertex), 1,
                  Append(visited, get_id(g, vertex)), recursion_stack)

contains_cycle(g) ==
    IF g.vdict = <<>> THEN Raise("IndexError")
    ELSE LET start_id == DictKeys(g.vdict)[1]
             r == dfs_cycle(g, get_vertex(g, start_id), <<start_id>>, <<>>)
         IN  IF r.ret = "IndexError" THEN Raise("IndexError") ELSE Return(r.ret)

\* ----------------------------------------------------- bfs_calculate_depth
RECURSIVE bfs_calculate_depth_for(_, _, _, _, _, _)
bfs_calculate_depth_for(g, nbrs, i, current_depth, seen, queue) ==
    IF i > Len(nbrs) THEN [seen |-> seen, queue |-> queue]
    ELSE LET nid == get_id(g, nbrs[i])
         IN  IF nid \notin seen
             THEN bfs_calculate_depth_for(g, nbrs, i + 1, current_depth,
                      seen \cup {nid}, Append(queue, <<nbrs[i], current_depth + 1>>))
             ELSE bfs_calculate_depth_for(g, nbrs, i + 1, current_depth, seen, queue)

\* The slip "if current_depth < max_depth".
UpdateMaxDepthFlipped(max_depth, current_depth) ==
    IF current_depth < max_depth THEN current_depth ELSE max_depth

\* if current_depth > max_depth: max_depth = current_depth
UpdateMaxDepth(max_depth, current_depth) ==
    IF current_depth > max_depth THEN current_depth ELSE max_depth

RECURSIVE bfs_calculate_depth_while(_, _, _, _)
bfs_calculate_depth_while(g, seen, queue, max_depth) ==
    IF queue = <<>> THEN max_depth
    ELSE LET cur == Head(queue)
             st == bfs_calculate_depth_for(g, get_neighbors(g, cur[1]), 1, cur[2],
                       seen, Tail(queue))
         IN  bfs_calculate_depth_while(g, st.seen, st.queue,
                 UpdateMaxDepth(max_depth, cur[2]))

\* With start_id absent get_vertex gives None and None.get_id() raises.
bfs_calculate_depth(g, start_id) ==
    IF get_vertex(g, start_id) = None THEN Raise("AttributeError")
    ELSE Return(bfs_calculate_depth_while(g, {start_id},
                    <<<<get_vertex(g, start_id), 0>>>>, 0))

\* -------------------------------------------------------- topological_sort
RECURSIVE dfs_topological_sort(_, _, _, _)
RECURSIVE dfs_topological_sort_for(_, _, _, _, _)
dfs_topological_sort_for(g, nbrs, i, visited, stack) ==
    IF i > Len(nbrs) THEN [visited |-> visited, stack |-> stack]
    ELSE IF get_id(g, nbrs[i]) \notin visited
         THEN LET r == dfs_topological_sort(g, nbrs[i], visited, stack)
              IN  dfs_topological_sort_for(g, nbrs, i + 1, r.visited, r.stack)
         ELSE dfs_topological_sort_for(g, nbrs, i + 1, visited, stack)

dfs_topological_sort(g, vertex, visited, stack) ==
    LET r == dfs_topological_sort_for(g, get_neighbors(g, vertex), 1,
                 visited \cup {get_id(g, vertex)}, stack)
    IN  [visited |-> r.visited, stack |-> Append(r.stack, get_id(g, vertex))]

RECURSIVE topological_sort_roots(_, _, _, _, _)
topological_sort_roots(g, vs, i, visited, stack) ==
    IF i > Len(vs) THEN stack
    ELSE IF get_id(g, vs[i]) \notin visited
         THEN LET r == dfs_topological_sort(g, vs[i], visited, stack)
              IN  topological_sort_roots(g, vs, i + 1, r.visited, r.stack)
         ELSE topological_sort_roots(g, vs, i + 1, visited, stack)

Reverse(s) == [i \in 1..Len(s) |-> s[Len(s) + 1 - i]]

\* "if self.contains_cycle()": an exception of contains_cycle propagates,
\* True raises ValueError, False and None let the sort run.
topological_sort(g) ==
    LET c == contains_cycle(g)
    IN  IF c.status # "ok" THEN c
        ELSE IF c.val = "True" THEN Raise("ValueError")
        ELSE Return(Reverse(topological_sort_roots(g, get_vertices(g), 1, {}, <<>>)))

\* --------------------------------------------------------------- timeToRot
\* One cell of the double loop, rows and columns counted from 0 as in the
\* source; st is [graph, rotten].
timeToRot_cell(grid, i, j, st) ==
    LET pos == Len(grid[i + 1]) * i + j
    IN  IF grid[i + 1][j + 1] > 0
        THEN LET g1 == add_vertex(st.graph, pos)
                 r1 == IF grid[i + 1][j + 1] = 2 THEN Append(st.rotten, pos)
                       ELSE st.rotten
                 g2 == IF i > 0 /\ grid[i][j + 1] > 0
                       THEN add_edge(g1, pos, Len(grid[i]) * (i - 1) + j) ELSE g1
                 g3 == IF j > 0 /\ grid[i + 1][j] > 0
                       THEN add_edge(g2, pos, Len(grid[i + 1]) * i + (j - 1)) ELSE g2
             IN  [graph |-> g3, rotten |-> r1]
        ELSE st

RECURSIVE timeToRot_build(_, _, _, _)
timeToRot_build(grid, i, j, st) ==
    IF i >= Len(grid) THEN st
    ELSE IF j >= Len(grid[i + 1]) THEN timeToRot_build(grid, i + 1, 0, st)
    ELSE timeToRot_build(grid, i, j + 1, timeToRot_cell(grid, i, j, st))

RECURSIVE timeToRot_depths(_, _, _, _)
timeToRot_depths(g, rotten, k, max_depth) ==
    IF k > Len(rotten) THEN max_depth
    ELSE LET depth == bfs_calculate_depth(g, rotten[k]).val
         IN  timeToRot_depths(g, rotten, k + 1,
                 IF depth > max_depth THEN depth ELSE max_depth)

\* The values the call can return (one per order in which
\* find_connected_components may pop its set).
timeToRot(grid) ==
    LET st == timeToRot_build(grid, 0, 0,
                  [graph |-> NewGraph(FALSE), rotten |-> <<>>])
    IN  { IF Len(components) > 1 THEN -1
          ELSE timeToRot_depths(st.graph, st.rotten, 1, 0)
          : components \in find_connected_components(st.graph) }

\* ------------------------------------------------- the graph as a relation
\* What the claims speak of, defined without the traversal code: the
\* neighbour ids of the graph's vertex u, distances, cycles.
NeighborIds(g, u) == DictKeySet(g.heap[DictGet(g.vdict, u)].nbrs)

\* Every neighbour entry of every vertex of the graph refers to the graph's
\* current object for that id (false once add_vertex has replaced a vertex
\* that other vertices still hold).
NoStaleLinks(g) ==
    \A u \in VertexIds(g) :
        LET d == g.heap[DictGet(g.vdict, u)].nbrs
        IN  \A k \in 1..Len(d) : d[k].v = DictGet(g.vdict, d[k].k)

\* Shortest-path distances from s, by levels: a function on the ids
\* reachable from s.
RECURSIVE DistLevels(_, _, _, _)
DistLevels(g, frontier, d, acc) ==
    IF frontier = {} THEN acc
    ELSE LET nxt == (UNION {NeighborIds(g, u) : u \in frontier}) \ DOMAIN acc
         IN  DistLevels(g, nxt, d + 1, [v \in nxt |-> d + 1] @@ acc)

DistMap(g, s) == DistLevels(g, {s}, 0, (s :> 0))

Reachable(g, s) == DOMAIN DistMap(g, s)

MaxOf(S) == CHOOSE x \in S : \A y \in S : y <= x

Eccentricity(g, s) == LET dm == DistMap(g, s) IN MaxOf({dm[v] : v \in DOMAIN dm})

IsPath(g, p) ==
    /\ Len(p) >= 1
    /\ \A k \in 1..Len(p) : p[k] \in VertexIds(g)
    /\ \A k \in 1..(Len(p) - 1) : p[k + 1] \in NeighborIds(g, p[k])

HasCycle(g) ==
    \E u \in VertexIds(g) : \E v \in NeighborIds(g, u) : u \in Reachable(g, v)

IsConnected(g) ==
    \A u \in VertexIds(g) : Reachable(g, u) = VertexIds(g)

TwoColourable(g) ==
    \E S \in SUBSET VertexIds(g) :
        \A u \in VertexIds(g) : \A v \in NeighborIds(g, u) : (u \in S) # (v \in S)

NoDuplicates(s) == \A k, l \in 1..Len(s) : s[k] = s[l] => k = l

SeqSet(s) == {s[k] : k \in 1..Len(s)}

PositionOf(s, x) == CHOOSE k \in 1..Len(s) : s[k] = x

\* ------------------------------------------------------------------ state
\* graph: the Graph object; ops: the mutating calls made so far; res: the
\* last call, its arguments and its outcome.
VARIABLES graph, ops, res

vars == <<graph, ops, res>>

NoCall == [val |-> <<>>, status |-> "ok", op |-> "none", a |-> 0, b |-> 0]

Call(name, x, y, out) ==
    [val |-> out.val, status |-> out.status, op |-> name, a |-> x, b |-> y]

Readds(g) == Len(g.heap) - Len(g.vdict)

Init ==
    /\ graph \in {NewGraph(d) : d \in BOOLEAN}
    /\ ops = 0
    /\ res = NoCall

\* A query leaves the graph as it is, so a call made after a query reaches no
\* state that the same call made before it does not reach: a query is taken
\* from the states a mutating call (or the construction) has left.
Query(r) ==
    /\ res.op \in {"none", "add_vertex", "add_edge"}
    /\ res' = r
    /\ UNCHANGED <<graph, ops>>

AddVertex ==
    \E id \in Ids :
        /\ ops < MaxOps
        /\ contains_id(graph, id) => Readds(graph) < MaxReadd
        /\ graph' = add_vertex(graph, id)
        /\ ops' = ops + 1
        /\ res' = Call("add_vertex", id, 0, Return(get_vertex(graph', id)))

AddEdge ==
    \E u \in Ids, v \in Ids :
        /\ ops < MaxOps
        /\ graph' = add_edge(graph, u, v)
        /\ ops' = ops + 1
        /\ res' = Call("add_edge", u, v, Return(None))

GetVertex ==
    \E id \in Ids : Query(Call("get_vertex", id, 0, Return(get_vertex(graph, id))))

ContainsId ==
    \E id \in Ids : Query(Call("contains_id", id, 0, Return(contains_id(graph, id))))

GetVertices == Query(Call("get_vertices", 0, 0, Return(get_vertices(graph))))

BfsTraversal ==
    \E s \in Ids : Query(Call("bfs_traversal", s, 0, bfs_traversal(graph, s)))

FindShortestPath ==
    \E s \in Ids, t \in Ids :
        Query(Call("find_shortest_path", s, t, find_shortest_path(graph, s, t)))

FindVerticesNAway ==
    \E s \in Ids, n \in 0..MaxDist :
        Query(Call("find_vertices_n_away", s, n, find_vertices_n_away(graph, s, n)))

IsBipartite ==
    \E o \in is_bipartite(graph) : Query(Call("is_bipartite", o.start, 0, o.out))

FindConnectedComponents ==
    \E cs \in find_connected_components(graph) :
        Query(Call("find_connected_components", 0, 0, Return(cs)))

FindPathDfsIter ==
    \E s \in Ids, t \in Ids :
        Query(Call("find_path_dfs_iter", s, t, find_path_dfs_iter(graph, s, t)))

ContainsCycle == Query(Call("contains_cycle", 0, 0, contains_cycle(graph)))

BfsCalculateDepth ==
    \E s \in Ids : Query(Call("bfs_calculate_depth", s, 0, bfs_calculate_depth(graph, s)))

TopologicalSort == Query(Call("topological_sort", 0, 0, topological_sort(graph)))

\* Every operation of Graph, on every graph a few calls can build.
Next ==
    \/ AddVertex
    \/ AddEdge
    \/ GetVertex
    \/ ContainsId
    \/ GetVertices
    \/ BfsTraversal
    \/ FindShortestPath
    \/ FindVerticesNAway
    \/ IsBipartite
    \/ FindConnectedComponents
    \/ FindPathDfsIter
    \/ ContainsCycle
    \/ BfsCalculateDepth
    \/ TopologicalSort

Spec == Init /\ [][Next]_vars

\* Construction and bfs_calculate_depth alone.
NextDepth == AddVertex \/ AddEdge \/ BfsCalculateDepth

SpecDepth == Init /\ [][NextDepth]_vars

\* ------------------------------------------------------ larger graphs
\* Graphs built by add_edge alone over PathIds ids.  Ids are interchangeable,
\* so a call names at most the next unused id: 1 first, then 2, and so on.
LargestId(g) == IF g.vdict = <<>> THEN 0 ELSE MaxOf(VertexIds(g))

PathAddEdge ==
    \E u \in 1..PathIds, v \in 1..PathIds :
        /\ ops < PathEdges
        /\ u <= LargestId(graph) + 1
        /\ v <= (IF u > LargestId(graph) THEN u ELSE LargestId(graph)) + 1
        /\ graph' = add_edge(graph, u, v)
        /\ ops' = ops + 1
        /\ res' = Call("add_edge", u, v, Return(None))

\* The searches start from the vertex the construction began with.
FirstId(g) == DictKeys(g.vdict)[1]

PathFindShortestPath ==
    /\ graph.vdict # <<>>
    /\ \E t \in VertexIds(graph) :
        Query(Call("find_shortest_path", FirstId(graph), t,
                   find_shortest_path(graph, FirstId(graph), t)))

PathFindVerticesNAway ==
    /\ graph.vdict # <<>>
    /\ \E n \in 0..MaxDist :
        Query(Call("find_vertices_n_away", FirstId(graph), n,
                   find_vertices_n_away(graph, FirstId(graph), n)))

NextPath == PathAddEdge \/ PathFindShortestPath \/ PathFindVerticesNAway \/ IsBipartite

SpecPath == Init /\ [][NextPath]_vars

\* ------------------------------------------------------------- the grid
\* Rectangular grids over {0, 1, 2}: 0 empty, 1 fresh, 2 rotten.
Grids == UNION {[1..r -> [1..c -> 0..2]] : r \in 1..MaxRows, c \in 1..MaxCols}

TimeToRot ==
    \E grid \in Grids : \E r \in timeToRot(grid) :
        Query(Call("timeToRot", grid, 0, Return(r)))

SpecGrid == Init /\ [][TimeToRot]_vars

\* What the docstring of timeToRot asks for, by simulation: each minute the
\* fresh oranges next to a rotten one rot; -1 if a fresh one is left.
Cells(grid) == {c \in (1..Len(grid)) \X (1..Len(grid[1])) : grid[c[1]][c[2]] > 0}

Adjacent(c, d) ==
    \/ c[1] = d[1] /\ (c[2] = d[2] + 1 \/ d[2] = c[2] + 1)
    \/ c[2] = d[2] /\ (c[1] = d[1] + 1 \/ d[1] = c[1] + 1)

RECURSIVE Spread(_, _, _)
Spread(grid, rotten, minutes) ==
    LET newly == {c \in Cells(grid) \ rotten : \E d \in rotten : Adjacent(c, d)}
    IN  IF newly = {}
        THEN IF rotten = Cells(grid) THEN minutes ELSE -1
        ELSE Spread(grid, rotten \cup newly, minutes + 1)

MinutesToRot(grid) ==
    Spread(grid, {c \in Cells(grid) : grid[c[1]][c[2]] = 2}, 0)

\* ================================================================ claims
IsQuery(name) == res.op = name

\* ---------------------------------------------------------------------- C1
\* C1 as stated: in an undirected graph, after any add_vertex and add_edge
\* calls (add_vertex on an existing id included), v among the neighbours of
\* the graph's vertex u implies u among the neighbours of the graph's
\* vertex v.
C1_SymmetricAfterAnyCalls ==
    ~graph.directed =>
        \A u \in VertexIds(graph) : \A v \in NeighborIds(graph, u) :
            u \in NeighborIds(graph, v)

\* C1 amended: in an undirected graph, if v is among the neighbours of the
\* graph's vertex u and that neighbour entry is the graph's current vertex
\* object for v, then u is among the neighbours of the graph's vertex v.
C1_SymmetricOnCurrentLinks ==
    ~graph.directed =>
        \A u \in VertexIds(graph) :
            LET d == graph.heap[DictGet(graph.vdict, u)].nbrs
            IN  \A k \in 1..Len(d) :
                    d[k].v = DictGet(graph.vdict, d[k].k)
                        => u \in NeighborIds(graph, d[k].k)

\* An undirected graph in which add_vertex has replaced a vertex that is
\* still held as a neighbour, and to which an edge between two current
\* vertices was added afterwards.
C1_Witness ==
    /\ ~graph.directed
    /\ ~NoStaleLinks(graph)
    /\ res.op = "add_edge"
    /\ res.a # res.b
    /\ DictGet(graph.heap[DictGet(graph.vdict, res.a)].nbrs, res.b)
           = DictGet(graph.vdict, res.b)

\* ---------------------------------------------------------------------- C2
\* C2: the components find_connected_components returns partition the
\* vertex ids: their union is the id set, no id is listed twice in a
\* component, and no id is in two components.
C2_ComponentsPartition ==
    IsQuery("find_connected_components") =>
        LET cs == res.val
        IN  /\ UNION {SeqSet(cs[k]) : k \in 1..Len(cs)} = VertexIds(graph)
            /\ \A k \in 1..Len(cs) : NoDuplicates(cs[k])
            /\ \A k, l \in 1..Len(cs) :
                   k # l => SeqSet(cs[k]) \cap SeqSet(cs[l]) = {}

\* ---------------------------------------------------------------------- C3
\* C3: on a non-empty directed acyclic graph topological_sort returns,
\* without raising, an ordering of the vertex ids in which u precedes v for
\* every edge u -> v.
C3_TopologicalOrderOnDag ==
    (/\ IsQuery("topological_sort")
     /\ graph.directed
     /\ VertexIds(graph) # {}
     /\ ~HasCycle(graph)) =>
        /\ res.status = "ok"
        /\ NoDuplicates(res.val)
        /\ SeqSet(res.val) = VertexIds(graph)
        /\ \A u \in VertexIds(graph) : \A v \in NeighborIds(graph, u) :
               PositionOf(res.val, u) < PositionOf(res.val, v)

\* ---------------------------------------------------------------------- C4
\* C4: on a non-empty directed graph contains_cycle returns True if the
\* graph has a directed cycle (a self-loop included) and False otherwise
\* (a returned None is counted as False).
C4_ContainsCycleDecides ==
    (/\ IsQuery("contains_cycle")
     /\ graph.directed
     /\ VertexIds(graph) # {}) =>
        /\ res.status = "ok"
        /\ HasCycle(graph) => res.val = "True"
        /\ ~HasCycle(graph) => res.val \in {"False", "None"}

\* ---------------------------------------------------------------------- C5
\* C5: for start and target in the graph, find_shortest_path returns a path
\* from start to target with the fewest edges when target is reachable, and
\* None when it is not.
C5_ShortestPath ==
    (/\ IsQuery("find_shortest_path")
     /\ contains_id(graph, res.a)
     /\ contains_id(graph, res.b)) =>
        /\ res.status = "ok"
        /\ IF res.b \in Reachable(graph, res.a)
           THEN /\ res.val # <<>>
                /\ IsPath(graph, res.val)
                /\ res.val[1] = res.a
                /\ Last(res.val) = res.b
                /\ Len(res.val) - 1 = DistMap(graph, res.a)[res.b]
           ELSE res.val = <<>>

\* ---------------------------------------------------------------------- C6
\* C6: for start in the graph and n >= 0, find_vertices_n_away returns
\* exactly the ids at shortest-path distance n from start, each once.
C6_VerticesAtDistance ==
    (IsQuery("find_vertices_n_away") /\ contains_id(graph, res.a)) =>
        /\ res.status = "ok"
        /\ NoDuplicates(res.val)
        /\ SeqSet(res.val) =
               LET dm == DistMap(graph, res.a)
               IN  {v \in DOMAIN dm : dm[v] = res.b}

\* ---------------------------------------------------------------------- C7
\* C7: on a non-empty connected undirected graph, whichever start vertex is
\* drawn, is_bipartite returns True if the graph is 2-colourable and False
\* otherwise.
C7_BipartiteDecides ==
    (/\ IsQuery("is_bipartite")
     /\ ~graph.directed
     /\ VertexIds(graph) # {}
     /\ IsConnected(graph)) =>
        /\ res.status = "ok"
        /\ res.val = TwoColourable(graph)

\* ---------------------------------------------------------------------- C8
\* C8: timeToRot returns the number of minutes until every orange is rotten
\* when each minute the fresh 4-neighbours of rotten oranges rot, and -1
\* when some fresh orange is never reached.
C8_TimeToRot ==
    IsQuery("timeToRot") => res.val = MinutesToRot(res.a)

\* ---------------------------------------------------------------------- C9
\* C9: the only errors are KeyError from bfs_traversal, find_shortest_path
\* and find_path_dfs_iter on an absent id and ValueError from
\* topological_sort; contains_cycle, is_bipartite,
\* find_connected_components, find_vertices_n_away (the empty list for an
\* absent start), get_vertex, contains_id, get_vertices, add_vertex and
\* add_edge return a value on every graph, the empty one included.
C9_Ops ==
    {"contains_cycle", "is_bipartite", "find_connected_components",
     "find_vertices_n_away", "get_vertex", "contains_id", "get_vertices",
     "add_vertex", "add_edge"}

C9_OnlyDocumentedErrors ==
    /\ res.op \in C9_Ops => res.status = "ok"
    /\ (IsQuery("find_vertices_n_away") /\ ~contains_id(graph, res.a))
           => res.val = <<>>
    /\ IsQuery("bfs_traversal")
           => \/ res.status = "ok"
              \/ res.status = "KeyError" /\ ~contains_id(graph, res.a)
    /\ res.op \in {"find_shortest_path", "find_path_dfs_iter"}
           => \/ res.status = "ok"
              \/ /\ res.status = "KeyError"
                 /\ ~contains_id(graph, res.a) \/ ~contains_id(graph, res.b)
    /\ IsQuery("topological_sort") => res.status \in {"ok", "ValueError"}

\* --------------------------------------------------------------------- C10
\* C10 as stated: for every graph and start in it, bfs_calculate_depth
\* returns the largest shortest-path distance from start to a vertex
\* reachable from it (0 when nothing else is reachable).
C10_DepthIsEccentricity ==
    (IsQuery("bfs_calculate_depth") /\ contains_id(graph, res.a)) =>
        /\ res.status = "ok"
        /\ res.val = Eccentricity(graph, res.a)

\* C10 amended: the same, for graphs in which every neighbour entry refers
\* to the graph's current vertex object for its id.
C10_DepthIsEccentricityOnCurrentLinks ==
    (/\ IsQuery("bfs_calculate_depth")
     /\ contains_id(graph, res.a)
     /\ NoStaleLinks(graph)) =>
        /\ res.status = "ok"
        /\ res.val = Eccentricity(graph, res.a)

\* bfs_calculate_depth from one end of a path with two edges.
C10_Witness ==
    /\ IsQuery("bfs_calculate_depth")
    /\ NoStaleLinks(graph)
    /\ Cardinality(VertexIds(graph)) = 3
    /\ \A u \in VertexIds(graph) : Cardinality(NeighborIds(graph, u)) <= 1
    /\ res.status = "ok"
    /\ res.val = 2

====
